---- MODULE Spec2Model ----
(***************************************************************************)
(* State-machine model of src/stc_scheduler.rs (StcScheduler): the node    *)
(* registry (a DashMap), the server status behind its mutex, the health    *)
(* recompute driven by the monotonic clock, the scoring functions and the  *)
(* overload check with its candidate scan.                                 *)
(*                                                                         *)
(* f64 values are modelled as exact rationals <<numerator, denominator>>   *)
(* with a positive denominator, kept in lowest terms; the inputs are drawn *)
(* from finite sets of values on which the f64 results are the rational    *)
(* ones at the comparisons the code makes.  Instants are whole seconds of  *)
(* the monotonic clock.                                                    *)
(***************************************************************************)
EXTENDS Integers, Sequences, FiniteSets, TLC

VARIABLES
    nodes,          \* self.nodes: node_id -> NodeContext (DOMAIN = registered ids)
    server_status,  \* the ServerStatus behind self.server_status
    status_lock,    \* holder of the server_status mutex, or NoProc
    shard_lock,     \* per DashMap shard: [w |-> writer or NoProc, r |-> set of readers]
    shard_of,       \* node_id -> shard index (fixed by the map's hasher at construction)
    now,            \* the monotonic clock, Instant::now(), in seconds
    pc,             \* per caller: where it is in the call it is executing
    frame,          \* per caller: the locals of the call it is executing
    uuid_next,      \* number of shard identifiers drawn so far by Uuid::new_v4
    registered,     \* history: node_id -> the (hardware, caller fields) last registered under it
    ev              \* history: the call that completed in the last step, with what it saw before

vars == <<nodes, server_status, status_lock, shard_lock, shard_of, now, pc, frame,
          uuid_next, registered, ev>>

-----------------------------------------------------------------------------
(* Bounds of the model *)

MaxTime == 42
MaxUuid == 4
NumShards == 2
MaxEmaDen == 1

-----------------------------------------------------------------------------
(* f64 arithmetic on exact rationals *)

Abs(x) == IF x < 0 THEN -x ELSE x

RECURSIVE GCD(_, _)
GCD(a, b) == IF b = 0 THEN a ELSE GCD(b, a % b)

F(n, d) == LET g == GCD(Abs(n), d) IN <<n \div g, d \div g>>

FInt(n) == <<n, 1>>

FAdd(a, b) == F(a[1] * b[2] + b[1] * a[2], a[2] * b[2])

FMul(a, b) == F(a[1] * b[1], a[2] * b[2])

\* a / b for b > 0
FDiv(a, b) == F(a[1] * b[2], a[2] * b[1])

FLt(a, b) == a[1] * b[2] < b[1] * a[2]

FLe(a, b) == a[1] * b[2] <= b[1] * a[2]

FMax(a, b) == IF FLt(a, b) THEN b ELSE a

FClamp(x, lo, hi) == IF FLt(x, lo) THEN lo ELSE IF FLt(hi, x) THEN hi ELSE x

-----------------------------------------------------------------------------
(* Data model *)

NodeTier == {"Offline", "Tier3Mobile", "Tier2Standard", "Tier1HighPerformance"}

HealthState == {"Healthy", "Degraded", "Suspect", "Quarantined"}

NoProc == "none"

NoNode == "-"

ServerStatusDefault == [cpu_load |-> FInt(0), gpu_load |-> FInt(0),
                        vram_usage_ratio |-> FInt(0)]

\* the OverloadThresholds the scheduler is constructed with
thresholds == [cpu_max |-> F(85, 100), gpu_max |-> F(80, 100),
               vram_pressure_max |-> F(90, 100)]

-----------------------------------------------------------------------------
(* Scoring *)

calculate_raw_opi(node) ==
    LET s1 == FMul(F(node.total_ram_mb, 1024), FInt(5))
        s2 == FAdd(s1, FDiv(node.memory_bandwidth_gbps, FInt(10)))
        s3 == FAdd(s2, FInt((node.pcie_lanes * node.pcie_gen) * 2))
        s4 == FAdd(s3, F(node.compute_units, 2))
    IN  IF node.has_rocm THEN FMul(s4, F(11, 10)) ELSE s4

determine_tier(score) ==
    IF FLe(FInt(200), score) THEN "Tier1HighPerformance"
    ELSE IF FLe(FInt(80), score) THEN "Tier2Standard"
    ELSE "Tier3Mobile"

calculate_net_factor(node) ==
    LET base_rtt_ms == FInt(10)
        max_penalty == FInt(10)
        rtt == IF FLe(node.net_rtt_ema_ms, FInt(0)) THEN base_rtt_ms
               ELSE node.net_rtt_ema_ms
        raw == FDiv(rtt, base_rtt_ms)
    IN  FClamp(raw, FInt(1), max_penalty)

calculate_load_factor(node) ==
    LET load == FClamp(FMax(node.gpu_load, node.cpu_load), FInt(0), FInt(1))
    IN  FAdd(FInt(1), FMul(FInt(-1), load))

\* calculate_effective_opi that does not zero a Suspect node
calculate_effective_opi_ignores_suspect(node) ==
    IF node.is_quarantined \/ node.health_state = "Quarantined"
    THEN FInt(0)
    ELSE LET hw == calculate_raw_opi(node)
             net == calculate_net_factor(node)
             load_factor == calculate_load_factor(node)
         IN  FMul(FDiv(hw, net), load_factor)

calculate_effective_opi(node) ==
    IF node.is_quarantined \/ node.health_state \in {"Quarantined", "Suspect"}
    THEN FInt(0)
    ELSE LET hw == calculate_raw_opi(node)
             net == calculate_net_factor(node)
             load_factor == calculate_load_factor(node)
         IN  FMul(FDiv(hw, net), load_factor)

-----------------------------------------------------------------------------
(* Registration and status update: the per-entry computations *)

\* register_ctx that keeps the tier the caller put in the context
register_ctx_keeps_tier(ctx) ==
    [ctx EXCEPT !.net_rtt_ema_ms = FInt(0),
                !.health_state = "Healthy",
                !.failure_count = 0,
                !.is_quarantined = FALSE]

\* register_ctx without the reset of is_quarantined
register_ctx_keeps_quarantine(ctx) ==
    LET c == [ctx EXCEPT !.net_rtt_ema_ms = FInt(0),
                         !.health_state = "Healthy",
                         !.failure_count = 0]
    IN  [c EXCEPT !.current_tier = determine_tier(calculate_raw_opi(c))]

\* register_node_ctx, the resets and the tier it computes before the insert
register_ctx(ctx) ==
    LET c == [ctx EXCEPT !.net_rtt_ema_ms = FInt(0),
                         !.health_state = "Healthy",
                         !.failure_count = 0,
                         !.is_quarantined = FALSE]
    IN  [c EXCEPT !.current_tier = determine_tier(calculate_raw_opi(c))]

\* write_status that leaves last_seen as it was
write_status_keeps_last_seen(node, in, t) ==
    [node EXCEPT !.cpu_load = in.cpu,
                 !.gpu_load = in.gpu,
                 !.is_charging = in.charging,
                 !.network_type = in.net,
                 !.user_allowed = in.allowed]

\* update_node_status_with_rtt, the stores made right after get_mut; t is the
\* reading of Instant::now() stored in last_seen
write_status(node, in, t) ==
    [node EXCEPT !.cpu_load = in.cpu,
                 !.gpu_load = in.gpu,
                 !.is_charging = in.charging,
                 !.network_type = in.net,
                 !.user_allowed = in.allowed,
                 !.last_seen = t]

\* smooth_rtt with the two weights exchanged
smooth_rtt_swapped_weights(node, rtt_ms) ==
    IF FLt(FInt(0), rtt_ms)
    THEN IF FLe(node.net_rtt_ema_ms, FInt(0))
         THEN [node EXCEPT !.net_rtt_ema_ms = rtt_ms]
         ELSE [node EXCEPT !.net_rtt_ema_ms =
                   FAdd(FMul(F(8, 10), rtt_ms), FMul(F(2, 10), node.net_rtt_ema_ms))]
    ELSE node

\* update_node_status_with_rtt, the RTT EMA step
smooth_rtt(node, rtt_ms) ==
    IF FLt(FInt(0), rtt_ms)
    THEN IF FLe(node.net_rtt_ema_ms, FInt(0))
         THEN [node EXCEPT !.net_rtt_ema_ms = rtt_ms]
         ELSE [node EXCEPT !.net_rtt_ema_ms =
                   FAdd(FMul(F(2, 10), rtt_ms), FMul(F(8, 10), node.net_rtt_ema_ms))]
    ELSE node

\* update_health_state whose Degraded branch does not clear is_quarantined
update_health_state_degraded_keeps_flag(node, t) ==
    LET since_seen == t - node.last_seen
    IN  IF since_seen > 30
        THEN [node EXCEPT !.health_state = "Quarantined", !.is_quarantined = TRUE]
        ELSE IF since_seen > 10
        THEN [node EXCEPT !.health_state = "Suspect"]
        ELSE IF FLt(FInt(150), node.net_rtt_ema_ms)
        THEN [node EXCEPT !.health_state = "Degraded"]
        ELSE [node EXCEPT !.health_state = "Healthy", !.is_quarantined = FALSE]

\* update_health_state classifying an estimate of exactly 150 ms as Degraded
update_health_state_degraded_at_150(node, t) ==
    LET since_seen == t - node.last_seen
    IN  IF since_seen > 30
        THEN [node EXCEPT !.health_state = "Quarantined", !.is_quarantined = TRUE]
        ELSE IF since_seen > 10
        THEN [node EXCEPT !.health_state = "Suspect"]
        ELSE IF FLe(FInt(150), node.net_rtt_ema_ms)
        THEN [node EXCEPT !.health_state = "Degraded", !.is_quarantined = FALSE]
        ELSE [node EXCEPT !.health_state = "Healthy", !.is_quarantined = FALSE]

\* update_health_state; t is the reading of Instant::now() it takes
update_health_state(node, t) ==
    LET since_seen == t - node.last_seen
    IN  IF since_seen > 30
        THEN [node EXCEPT !.health_state = "Quarantined", !.is_quarantined = TRUE]
        ELSE IF since_seen > 10
        THEN [node EXCEPT !.health_state = "Suspect"]
        ELSE IF FLt(FInt(150), node.net_rtt_ema_ms)
        THEN [node EXCEPT !.health_state = "Degraded", !.is_quarantined = FALSE]
        ELSE [node EXCEPT !.health_state = "Healthy", !.is_quarantined = FALSE]

\* update_node_status_with_rtt, the tier recompute
recompute_tier(node) ==
    LET new_tier == determine_tier(calculate_raw_opi(node))
    IN  IF node.current_tier # new_tier
        THEN [node EXCEPT !.current_tier = new_tier]
        ELSE node

\* is_candidate without the test of gpu_load
is_candidate_ignores_gpu(node) ==
    /\ ~(~node.user_allowed \/ node.current_tier = "Offline")
    /\ ~FLt(F(9, 10), node.cpu_load)
    /\ ~node.is_quarantined
    /\ ~FLe(calculate_effective_opi(node), FInt(0))

\* find_smart_candidates, the filter applied to one entry
is_candidate(node) ==
    /\ ~(~node.user_allowed \/ node.current_tier = "Offline")
    /\ ~(FLt(F(9, 10), node.cpu_load) \/ FLt(F(9, 10), node.gpu_load))
    /\ ~node.is_quarantined
    /\ ~FLe(calculate_effective_opi(node), FInt(0))

\* is_overloaded that also tests gpu_load against gpu_max
is_overloaded_with_gpu(status) ==
    \/ FLt(thresholds.cpu_max, status.cpu_load)
    \/ FLt(thresholds.gpu_max, status.gpu_load)
    \/ FLt(thresholds.vram_pressure_max, status.vram_usage_ratio)

\* check_server_overload_and_shard, the overload test on the locked status
is_overloaded(status) ==
    \/ FLt(thresholds.cpu_max, status.cpu_load)
    \/ FLt(thresholds.vram_pressure_max, status.vram_usage_ratio)

-----------------------------------------------------------------------------
(* Candidate ranking and shard commands *)

\* Vec::sort_by with |a, b| b.1.partial_cmp(&a.1): a stable sort, descending
\* by score; x goes behind every element whose score is not smaller
InsertDesc(x, s) ==
    LET ahead == {i \in 1..Len(s) : ~FLt(s[i][2], x[2])}
        k == IF ahead = {} THEN 0 ELSE CHOOSE i \in ahead : \A j \in ahead : j <= i
    IN  SubSeq(s, 1, k) \o <<x>> \o SubSeq(s, k + 1, Len(s))

RECURSIVE SortDesc(_)
SortDesc(s) ==
    IF s = <<>> THEN <<>>
    ELSE InsertDesc(s[Len(s)], SortDesc(SubSeq(s, 1, Len(s) - 1)))

\* rank_candidates with the comparator's operands swapped: ascending
rank_candidates_ascending(cands) ==
    LET sorted == SortDesc(cands)
    IN  [i \in 1..Len(sorted) |-> sorted[Len(sorted) + 1 - i][1]]

\* find_smart_candidates, from the collected (id, score) pairs to the ids
rank_candidates(cands) ==
    LET sorted == SortDesc(cands)
    IN  [i \in 1..Len(sorted) |-> sorted[i][1]]

\* candidates.iter().take(3)
take3(ids) == SubSeq(ids, 1, IF Len(ids) < 3 THEN Len(ids) ELSE 3)

\* create_shard_command; u is the identifier Uuid::new_v4 returns
create_shard_command(u) ==
    [type |-> "ShardTask", task_id |-> u, shard_id |-> u,
     shard_index |-> 0, shard_total |-> 1]

\* check_server_overload_and_shard, the loop pushing one command per taken id;
\* Uuid::new_v4 is taken to return an identifier it never returned before
shard_commands(ids, drawn) ==
    [i \in 1..Len(take3(ids)) |->
        [node_id |-> take3(ids)[i], cmd |-> create_shard_command(drawn + i)]]

\* the orders in which an iterator may yield the entries of one shard
Orders(S) ==
    {q \in [1..Cardinality(S) -> S] : \A i, j \in 1..Cardinality(S) : q[i] = q[j] => i = j}

\* find_smart_candidates, the filter_map over the entries yielded in order q
scan_entries(q, map) ==
    LET keep == {i \in 1..Len(q) : is_candidate(map[q[i]])}
        F0[i \in 0..Len(q)] ==
            IF i = 0 THEN <<>>
            ELSE IF i \in keep
                 THEN Append(F0[i - 1], <<map[q[i]].node_id, calculate_effective_opi(map[q[i]])>>)
                 ELSE F0[i - 1]
    IN  F0[Len(q)]

-----------------------------------------------------------------------------
(* Callers, identifiers and the inputs they pass *)

Callers == {"p1"}

NodeIds == {"n1", "n2"}

\* where the map's hasher may put the identifiers: in one shard, or in two
ShardMaps == {[i \in NodeIds |-> 1], [i \in NodeIds |-> IF i = "n1" THEN 1 ELSE 2]}

\* hardware descriptors; raw scores 80, 382.8, 29 and 108
HwStandard == [total_ram_mb |-> 16384, memory_bandwidth_gbps |-> FInt(0), pcie_lanes |-> 0,
               pcie_gen |-> 0, compute_units |-> 0, has_rocm |-> FALSE]

HwHigh == [total_ram_mb |-> 32768, memory_bandwidth_gbps |-> FInt(400), pcie_lanes |-> 16,
           pcie_gen |-> 4, compute_units |-> 40, has_rocm |-> TRUE]

HwMobile == [total_ram_mb |-> 4096, memory_bandwidth_gbps |-> FInt(50), pcie_lanes |-> 0,
             pcie_gen |-> 0, compute_units |-> 8, has_rocm |-> FALSE]

HwMid == [total_ram_mb |-> 8192, memory_bandwidth_gbps |-> FInt(100), pcie_lanes |-> 8,
          pcie_gen |-> 3, compute_units |-> 20, has_rocm |-> FALSE]

\* the dynamic and health fields a caller puts in the NodeContext it registers
CallerClean == [current_tier |-> "Tier3Mobile", cpu_load |-> F(1, 2), gpu_load |-> F(1, 5),
                is_charging |-> TRUE, network_type |-> "wifi", user_allowed |-> TRUE,
                net_rtt_ema_ms |-> FInt(0), health_state |-> "Healthy",
                failure_count |-> 0, is_quarantined |-> FALSE]

CallerDirty == [current_tier |-> "Offline", cpu_load |-> F(1, 2), gpu_load |-> F(1, 5),
                is_charging |-> TRUE, network_type |-> "wifi", user_allowed |-> TRUE,
                net_rtt_ema_ms |-> FInt(500), health_state |-> "Quarantined",
                failure_count |-> 7, is_quarantined |-> TRUE]

\* a NodeContext as its caller builds it at time t
NodeCtx(id, hw, c, t) ==
    [node_id |-> id,
     total_ram_mb |-> hw.total_ram_mb,
     memory_bandwidth_gbps |-> hw.memory_bandwidth_gbps,
     pcie_lanes |-> hw.pcie_lanes,
     pcie_gen |-> hw.pcie_gen,
     compute_units |-> hw.compute_units,
     has_rocm |-> hw.has_rocm,
     current_tier |-> c.current_tier,
     last_seen |-> t,
     cpu_load |-> c.cpu_load,
     gpu_load |-> c.gpu_load,
     is_charging |-> c.is_charging,
     network_type |-> c.network_type,
     user_allowed |-> c.user_allowed,
     net_rtt_ema_ms |-> c.net_rtt_ema_ms,
     health_state |-> c.health_state,
     failure_count |-> c.failure_count,
     is_quarantined |-> c.is_quarantined]

RegInputs == {<<HwStandard, CallerClean>>, <<HwHigh, CallerDirty>>}

\* (cpu, gpu, charging, net, allowed) of a status update
StatusInputs ==
    {[cpu |-> F(1, 2), gpu |-> F(1, 5), charging |-> TRUE, net |-> "wifi", allowed |-> TRUE],
     [cpu |-> F(9, 10), gpu |-> F(9, 10), charging |-> FALSE, net |-> "lte", allowed |-> TRUE],
     [cpu |-> F(19, 20), gpu |-> FInt(0), charging |-> FALSE, net |-> "lte", allowed |-> TRUE],
     [cpu |-> FInt(0), gpu |-> F(19, 20), charging |-> FALSE, net |-> "lte", allowed |-> TRUE],
     [cpu |-> FInt(0), gpu |-> FInt(0), charging |-> TRUE, net |-> "wifi", allowed |-> FALSE]}

\* the status inputs of the specification of registration and health
HealthInputs ==
    {[cpu |-> F(1, 2), gpu |-> F(1, 5), charging |-> TRUE, net |-> "wifi", allowed |-> TRUE],
     [cpu |-> F(19, 20), gpu |-> FInt(0), charging |-> FALSE, net |-> "lte", allowed |-> FALSE]}

RttSamples == {FInt(200)}

\* (cpu, gpu, vram_ratio) of a master status update
MasterInputs ==
    {[cpu |-> F(9, 10), gpu |-> FInt(0), vram |-> F(1, 2)],
     [cpu |-> F(85, 100), gpu |-> F(95, 100), vram |-> F(9, 10)],
     [cpu |-> F(1, 2), gpu |-> FInt(0), vram |-> F(95, 100)]}

\* the clients and payloads of the request handlers
ClientIds == {"n1", "c9"}

OffloadRequests == {[container_id |-> "Programming", task_type |-> "infer", model_variant |-> "q4"]}

\* the payloads of these two requests are not read by their handlers
BabelRequests == {"babel_payload"}

AssistRequests == {"assist_payload"}

AdminRequests == {[action |-> "drain", target |-> "n1", message |-> "maintenance"],
                  [action |-> "", target |-> "", message |-> ""]}

\* seconds the clock may advance in one step
TickSteps == {11, 20}

-----------------------------------------------------------------------------
(* State *)

EmptyMap == [i \in {} |-> NoNode]

\* the locals of a call; pre and t1 are history: the entry as the status update
\* found it, and the clock reading it stored in last_seen
FrameIdle == [id |-> NoNode, in |-> NoNode, rtt |-> FInt(0), api |-> "", pre |-> NoNode,
              t1 |-> 0, min |-> ServerStatusDefault, cur |-> 0, cands |-> <<>>]

EvNone == [op |-> "", id |-> NoNode, api |-> "", given |-> NoNode, pre_has |-> FALSE,
           pre_size |-> 0, pre_elapsed |-> 0, pre_quar |-> FALSE, overloaded |-> FALSE,
           commands |-> <<>>, cands |-> <<>>, result |-> NoNode]

\* nodes_insert into a map that forgot its other entries
nodes_insert_lossy(map, id, ctx) ==
    [k \in {id} |-> ctx]

\* DashMap::insert: the entry is added, or replaces the one under the same key
nodes_insert(map, id, ctx) ==
    [k \in DOMAIN map \cup {id} |-> IF k = id THEN ctx ELSE map[k]]

\* hold_entry with the guard dropped at once: the entry is not kept locked
hold_entry_dropped(p, id) ==
    UNCHANGED shard_lock

\* the RefMut returned by get_mut keeps the shard's write lock
hold_entry(p, id) ==
    shard_lock' = [shard_lock EXCEPT ![shard_of[id]].w = p]

Shards == 1..NumShards

ShardFree(s) == shard_lock[s].w = NoProc /\ shard_lock[s].r = {}

ShardReadable(s) == shard_lock[s].w = NoProc

InitWith(P, maps) ==
    /\ nodes = EmptyMap
    /\ server_status = ServerStatusDefault
    /\ status_lock = NoProc
    /\ shard_lock = [s \in Shards |-> [w |-> NoProc, r |-> {}]]
    /\ shard_of \in maps
    /\ now = 0
    /\ pc = [p \in P |-> "idle"]
    /\ frame = [p \in P |-> FrameIdle]
    /\ uuid_next = 0
    /\ registered = EmptyMap
    /\ ev = EvNone

-----------------------------------------------------------------------------
(* Operations.  A caller p runs one call at a time; a call takes one step    *)
(* per point at which another caller or the clock can be observed: a lock    *)
(* or entry guard taken, a reading of Instant::now().                        *)

\* register_node_ctx up to and including self.nodes.insert (the shard's write
\* lock is taken and released by the insert)
register_node_ctx(p, id, hw, c) ==
    /\ pc[p] = "idle"
    /\ ShardFree(shard_of[id])
    /\ nodes' = nodes_insert(nodes, id, register_ctx(NodeCtx(id, hw, c, now)))
    /\ registered' = [k \in DOMAIN registered \cup {id} |->
                          IF k = id THEN <<hw, c>> ELSE registered[k]]
    /\ pc' = [pc EXCEPT ![p] = "registered"]
    /\ frame' = [frame EXCEPT ![p] = [FrameIdle EXCEPT !.id = id]]
    /\ ev' = [EvNone EXCEPT !.op = "register", !.id = id, !.given = c,
                            !.pre_has = (id \in DOMAIN nodes),
                            !.pre_size = Cardinality(DOMAIN nodes),
                            !.pre_quar = (id \in DOMAIN nodes /\ nodes[id].is_quarantined)]
    /\ UNCHANGED <<server_status, status_lock, shard_lock, shard_of, now, uuid_next>>

\* register_node_ctx, the self.nodes.get for the log line (a read guard on the
\* shard, dropped at the end of the if-let), and the return
register_node_ctx_return(p) ==
    /\ pc[p] = "registered"
    /\ ShardReadable(shard_of[frame[p].id])
    /\ pc' = [pc EXCEPT ![p] = "idle"]
    /\ frame' = [frame EXCEPT ![p] = FrameIdle]
    /\ ev' = EvNone
    /\ UNCHANGED <<nodes, server_status, status_lock, shard_lock, shard_of, now, uuid_next, registered>>

\* update_unknown as an upsert: the unknown id gets an entry
update_unknown_creates(p, id, api) ==
    /\ ev' = [EvNone EXCEPT !.op = "update_unknown", !.id = id, !.api = api,
                            !.pre_size = Cardinality(DOMAIN nodes)]
    /\ nodes' = nodes_insert(nodes, id, register_ctx(NodeCtx(id, HwMobile, CallerClean, now)))
    /\ UNCHANGED <<shard_lock, pc, frame>>

\* update_node_status_with_rtt, the else branch of get_mut: a warning is logged
update_unknown(p, id, api) ==
    /\ ev' = [EvNone EXCEPT !.op = "update_unknown", !.id = id, !.api = api,
                            !.pre_size = Cardinality(DOMAIN nodes)]
    /\ UNCHANGED <<nodes, shard_lock, pc, frame>>

\* update_node_status_with_rtt from get_mut (the shard's write lock, kept in the
\* RefMut) to the store of Instant::now() in last_seen; an unknown id takes the
\* else branch and returns
update_begin(p, id, in, rtt_ms, api) ==
    /\ pc[p] = "idle"
    /\ ShardFree(shard_of[id])
    /\ \/ /\ id \in DOMAIN nodes
          /\ nodes' = [nodes EXCEPT ![id] = write_status(@, in, now)]
          /\ hold_entry(p, id)
          /\ pc' = [pc EXCEPT ![p] = "updating"]
          /\ frame' = [frame EXCEPT ![p] =
                [FrameIdle EXCEPT !.id = id, !.in = in, !.rtt = rtt_ms, !.api = api,
                                  !.pre = nodes[id], !.t1 = now]]
          /\ ev' = EvNone
       \/ /\ id \notin DOMAIN nodes
          /\ update_unknown(p, id, api)
    /\ UNCHANGED <<server_status, status_lock, shard_of, now, uuid_next, registered>>

update_node_status_with_rtt(p, id, in, rtt_ms) ==
    update_begin(p, id, in, rtt_ms, "update_node_status_with_rtt")

\* update_node_status passing a sample of 200 ms instead of 0.0
update_node_status_passes_sample(p, id, in) ==
    update_begin(p, id, in, FInt(200), "update_node_status")

\* update_node_status: the same call with rtt_ms = 0.0
update_node_status(p, id, in) ==
    update_begin(p, id, in, FInt(0), "update_node_status")

\* update_node_status_finish that returns without dropping the RefMut
update_finish_keeps_guard(p) ==
    /\ pc[p] = "updating"
    /\ LET id == frame[p].id
       IN  /\ nodes' = [nodes EXCEPT ![id] =
                    recompute_tier(update_health_state(smooth_rtt(@, frame[p].rtt), now))]
           /\ ev' = [EvNone EXCEPT !.op = "update", !.id = id, !.api = frame[p].api,
                                   !.pre_has = TRUE,
                                   !.pre_elapsed = frame[p].t1 - frame[p].pre.last_seen,
                                   !.pre_quar = frame[p].pre.is_quarantined]
    /\ pc' = [pc EXCEPT ![p] = "idle"]
    /\ frame' = [frame EXCEPT ![p] = FrameIdle]
    /\ UNCHANGED <<server_status, status_lock, shard_lock, shard_of, now, uuid_next, registered>>

\* update_node_status_finish that evicts the entry it has classified Quarantined
update_finish_evicts_quarantined(p) ==
    /\ pc[p] = "updating"
    /\ LET id == frame[p].id
           after == recompute_tier(update_health_state(smooth_rtt(nodes[id], frame[p].rtt), now))
       IN  /\ nodes' = IF after.health_state = "Quarantined"
                       THEN [k \in DOMAIN nodes \ {id} |-> nodes[k]]
                       ELSE [nodes EXCEPT ![id] = after]
           /\ shard_lock' = [shard_lock EXCEPT ![shard_of[id]].w = NoProc]
           /\ ev' = [EvNone EXCEPT !.op = "update", !.id = id, !.api = frame[p].api,
                                   !.pre_has = TRUE,
                                   !.pre_elapsed = frame[p].t1 - frame[p].pre.last_seen,
                                   !.pre_quar = frame[p].pre.is_quarantined]
    /\ pc' = [pc EXCEPT ![p] = "idle"]
    /\ frame' = [frame EXCEPT ![p] = FrameIdle]
    /\ UNCHANGED <<server_status, status_lock, shard_of, now, uuid_next, registered>>

\* update_node_status_with_rtt from the RTT EMA step to the return: the health
\* recompute reads Instant::now() again, the tier is recomputed, the RefMut is
\* dropped
update_node_status_finish(p) ==
    /\ pc[p] = "updating"
    /\ LET id == frame[p].id
       IN  /\ nodes' = [nodes EXCEPT ![id] =
                    recompute_tier(update_health_state(smooth_rtt(@, frame[p].rtt), now))]
           /\ shard_lock' = [shard_lock EXCEPT ![shard_of[id]].w = NoProc]
           /\ ev' = [EvNone EXCEPT !.op = "update", !.id = id, !.api = frame[p].api,
                                   !.pre_has = TRUE,
                                   !.pre_elapsed = frame[p].t1 - frame[p].pre.last_seen,
                                   !.pre_quar = frame[p].pre.is_quarantined]
    /\ pc' = [pc EXCEPT ![p] = "idle"]
    /\ frame' = [frame EXCEPT ![p] = FrameIdle]
    /\ UNCHANGED <<server_status, status_lock, shard_of, now, uuid_next, registered>>

\* the update_master_status that stores without holding the mutex
update_master_status_unlocked(p, in) ==
    /\ pc[p] = "idle"
    /\ status_lock = NoProc
    /\ status_lock' = status_lock
    /\ server_status' = [server_status EXCEPT !.cpu_load = in.cpu]
    /\ pc' = [pc EXCEPT ![p] = "storing"]
    /\ frame' = [frame EXCEPT ![p] =
            [FrameIdle EXCEPT !.min = [cpu_load |-> in.cpu, gpu_load |-> in.gpu,
                                       vram_usage_ratio |-> in.vram]]]
    /\ ev' = EvNone
    /\ UNCHANGED <<nodes, shard_lock, shard_of, now, uuid_next, registered>>

\* update_master_status: the mutex is taken and cpu_load stored
update_master_status(p, in) ==
    /\ pc[p] = "idle"
    /\ status_lock = NoProc
    /\ status_lock' = p
    /\ server_status' = [server_status EXCEPT !.cpu_load = in.cpu]
    /\ pc' = [pc EXCEPT ![p] = "storing"]
    /\ frame' = [frame EXCEPT ![p] =
            [FrameIdle EXCEPT !.min = [cpu_load |-> in.cpu, gpu_load |-> in.gpu,
                                       vram_usage_ratio |-> in.vram]]]
    /\ ev' = EvNone
    /\ UNCHANGED <<nodes, shard_lock, shard_of, now, uuid_next, registered>>

\* update_master_status: gpu_load and vram_usage_ratio stored, the guard dropped
update_master_status_return(p) ==
    /\ pc[p] = "storing"
    /\ server_status' = [server_status EXCEPT !.gpu_load = frame[p].min.gpu_load,
                                              !.vram_usage_ratio = frame[p].min.vram_usage_ratio]
    /\ status_lock' = NoProc
    /\ pc' = [pc EXCEPT ![p] = "idle"]
    /\ frame' = [frame EXCEPT ![p] = FrameIdle]
    /\ ev' = [EvNone EXCEPT !.op = "master"]
    /\ UNCHANGED <<nodes, shard_lock, shard_of, now, uuid_next, registered>>

\* check_server_overload_and_shard: the mutex is taken, the overload test made;
\* when not overloaded the empty list is returned and the guard dropped
check_server_overload_and_shard(p) ==
    /\ pc[p] = "idle"
    /\ status_lock = NoProc
    /\ uuid_next + 3 <= MaxUuid
    /\ \/ /\ is_overloaded(server_status)
          /\ status_lock' = p
          /\ pc' = [pc EXCEPT ![p] = "scanning"]
          /\ frame' = [frame EXCEPT ![p] = FrameIdle]
          /\ ev' = EvNone
       \/ /\ ~is_overloaded(server_status)
          /\ ev' = [EvNone EXCEPT !.op = "check"]
          /\ UNCHANGED <<status_lock, pc, frame>>
    /\ UNCHANGED <<nodes, server_status, shard_lock, shard_of, now, uuid_next, registered>>

\* find_smart_candidates, one shard of self.nodes.iter(): the iterator takes the
\* next shard's read lock, drops the previous one, and the filter_map runs over
\* the shard's entries in the order the table yields them
find_smart_candidates(p) ==
    /\ pc[p] = "scanning"
    /\ frame[p].cur < NumShards
    /\ LET s == frame[p].cur + 1
           held == {x \in Shards : x = frame[p].cur}
       IN  /\ ShardReadable(s)
           /\ shard_lock' = [x \in Shards |->
                    IF x = s THEN [shard_lock[x] EXCEPT !.r = @ \cup {p}]
                    ELSE IF x \in held THEN [shard_lock[x] EXCEPT !.r = @ \ {p}]
                    ELSE shard_lock[x]]
           /\ \E q \in Orders({i \in DOMAIN nodes : shard_of[i] = s}) :
                 frame' = [frame EXCEPT ![p].cur = s,
                                        ![p].cands = @ \o scan_entries(q, nodes)]
    /\ ev' = EvNone
    /\ UNCHANGED <<nodes, server_status, status_lock, shard_of, now, pc, uuid_next, registered>>

\* check_server_overload_and_shard_return that books the shard on each targeted
\* node by raising its cpu_load
check_return_loads_targets(p) ==
    /\ pc[p] = "scanning"
    /\ frame[p].cur = NumShards
    /\ LET commands == shard_commands(rank_candidates(frame[p].cands), uuid_next)
           targets == {commands[i].node_id : i \in 1..Len(commands)}
       IN  /\ uuid_next' = uuid_next + Len(commands)
           /\ nodes' = [id \in DOMAIN nodes |->
                          IF id \in targets THEN [nodes[id] EXCEPT !.cpu_load = FInt(1)]
                          ELSE nodes[id]]
           /\ ev' = [EvNone EXCEPT !.op = "check", !.overloaded = TRUE,
                                   !.commands = commands, !.cands = frame[p].cands]
    /\ shard_lock' = [x \in Shards |-> [shard_lock[x] EXCEPT !.r = @ \ {p}]]
    /\ status_lock' = NoProc
    /\ pc' = [pc EXCEPT ![p] = "idle"]
    /\ frame' = [frame EXCEPT ![p] = FrameIdle]
    /\ UNCHANGED <<server_status, shard_of, now, registered>>

\* check_server_overload_and_shard after the scan: the sort, take(3), one
\* command per id, the return (the mutex guard is dropped)
check_server_overload_and_shard_return(p) ==
    /\ pc[p] = "scanning"
    /\ frame[p].cur = NumShards
    /\ LET commands == shard_commands(rank_candidates(frame[p].cands), uuid_next)
       IN  /\ uuid_next' = uuid_next + Len(commands)
           /\ ev' = [EvNone EXCEPT !.op = "check", !.overloaded = TRUE,
                                   !.commands = commands, !.cands = frame[p].cands]
    /\ shard_lock' = [x \in Shards |-> [shard_lock[x] EXCEPT !.r = @ \ {p}]]
    /\ status_lock' = NoProc
    /\ pc' = [pc EXCEPT ![p] = "idle"]
    /\ frame' = [frame EXCEPT ![p] = FrameIdle]
    /\ UNCHANGED <<nodes, server_status, shard_of, now, registered>>

\* handle_offload_request: logs and returns the acceptance command
handle_offload_request(p, client_id, req) ==
    /\ pc[p] = "idle"
    /\ ev' = [EvNone EXCEPT !.op = "handle_offload_request", !.id = client_id, !.given = req,
                            !.result = [type |-> "OffloadAccepted",
                                        task_id |-> <<"offload_", client_id>>,
                                        payload |-> NoNode]]
    /\ UNCHANGED <<nodes, server_status, status_lock, shard_lock, shard_of, now, pc, frame,
                   uuid_next, registered>>

\* handle_babel_request: logs and returns the stream-initialisation command
handle_babel_request(p, client_id, req) ==
    /\ pc[p] = "idle"
    /\ ev' = [EvNone EXCEPT !.op = "handle_babel_request", !.id = client_id, !.given = req,
                            !.result = [type |-> "StreamInit",
                                        task_id |-> <<"babel_", client_id>>,
                                        payload |-> NoNode]]
    /\ UNCHANGED <<nodes, server_status, status_lock, shard_lock, shard_of, now, pc, frame,
                   uuid_next, registered>>

\* handle_assist_request: returns None
handle_assist_request(p, client_id, req) ==
    /\ pc[p] = "idle"
    /\ ev' = [EvNone EXCEPT !.op = "handle_assist_request", !.id = client_id, !.given = req,
                            !.result = "None"]
    /\ UNCHANGED <<nodes, server_status, status_lock, shard_lock, shard_of, now, pc, frame,
                   uuid_next, registered>>

\* handle_admin_action: logs and returns Ok("Processed")
handle_admin_action(p, req) ==
    /\ pc[p] = "idle"
    /\ ev' = [EvNone EXCEPT !.op = "handle_admin_action", !.given = req,
                            !.result = <<"Ok", "Processed">>]
    /\ UNCHANGED <<nodes, server_status, status_lock, shard_lock, shard_of, now, pc, frame,
                   uuid_next, registered>>

\* the monotonic clock advances
Tick(d) ==
    /\ now + d <= MaxTime
    /\ now' = now + d
    /\ ev' = EvNone
    /\ UNCHANGED <<nodes, server_status, status_lock, shard_lock, shard_of, pc, frame,
                   uuid_next, registered>>

-----------------------------------------------------------------------------------------------------------------------------------------------------
(* Specifications *)

\* Registration and status updates of two nodes by one caller, with the clock
\* advancing between any two steps (also between the two clock readings of one
\* status update).
Init == InitWith(Callers, {[i \in NodeIds |-> 1]})

Next ==
    \/ \E p \in Callers, id \in NodeIds, r \in RegInputs : register_node_ctx(p, id, r[1], r[2])
    \/ \E p \in Callers : register_node_ctx_return(p)
    \/ \E p \in Callers, id \in NodeIds, in \in HealthInputs : update_node_status(p, id, in)
    \/ \E p \in Callers, id \in NodeIds, in \in HealthInputs, rtt \in RttSamples :
            update_node_status_with_rtt(p, id, in, rtt)
    \/ \E p \in Callers : update_node_status_finish(p)
    \/ \E d \in TickSteps : Tick(d)

Spec == Init /\ [][Next]_vars

\* The overload check over four nodes of distinct hardware, by one caller, with
\* the clock at rest: registration, status updates, master status updates and
\* the check with its scan.
RankIds == {"n1", "n2", "n3", "n4"}

RankHw == [i \in RankIds |->
             IF i = "n1" THEN HwStandard ELSE IF i = "n2" THEN HwHigh
             ELSE IF i = "n3" THEN HwMobile ELSE HwMid]

RankInputs ==
    {[cpu |-> F(9, 10), gpu |-> F(9, 10), charging |-> FALSE, net |-> "lte", allowed |-> TRUE],
     [cpu |-> FInt(0), gpu |-> FInt(0), charging |-> TRUE, net |-> "wifi", allowed |-> FALSE]}

InitRank == InitWith(Callers, {[i \in RankIds |-> IF i \in {"n1", "n2"} THEN 1 ELSE 2]})

NextRank ==
    \/ \E p \in Callers, id \in RankIds : register_node_ctx(p, id, RankHw[id], CallerClean)
    \/ \E p \in Callers : register_node_ctx_return(p)
    \/ \E p \in Callers, id \in RankIds, in \in RankInputs : update_node_status(p, id, in)
    \/ \E p \in Callers : update_node_status_finish(p)
    \/ \E p \in Callers, in \in MasterInputs : update_master_status(p, in)
    \/ \E p \in Callers : update_master_status_return(p)
    \/ \E p \in Callers : check_server_overload_and_shard(p)
    \/ \E p \in Callers : find_smart_candidates(p)
    \/ \E p \in Callers : check_server_overload_and_shard_return(p)

SpecRank == InitRank /\ [][NextRank]_vars

\* The candidate scan over two nodes in every load, consent and health state,
\* by one caller, with the clock advancing between any two steps.
ScanTicks == {20}

OverloadedInputs == {[cpu |-> F(9, 10), gpu |-> FInt(0), vram |-> F(1, 2)]}

InitScan == InitWith(Callers, {[i \in NodeIds |-> IF i = "n1" THEN 1 ELSE 2]})

NextScan ==
    \/ \E p \in Callers, id \in NodeIds : register_node_ctx(p, id, RankHw[id], CallerDirty)
    \/ \E p \in Callers : register_node_ctx_return(p)
    \/ \E p \in Callers, id \in NodeIds, in \in StatusInputs : update_node_status(p, id, in)
    \/ \E p \in Callers : update_node_status_finish(p)
    \/ \E p \in Callers, in \in OverloadedInputs : update_master_status(p, in)
    \/ \E p \in Callers : update_master_status_return(p)
    \/ \E p \in Callers : check_server_overload_and_shard(p)
    \/ \E p \in Callers : find_smart_candidates(p)
    \/ \E p \in Callers : check_server_overload_and_shard_return(p)
    \/ \E d \in ScanTicks : Tick(d)

SpecScan == InitScan /\ [][NextScan]_vars

\* Two callers running registrations, status updates, master status updates and
\* overload checks concurrently on two nodes, any interleaving of their steps.
ConcCallers == {"p1", "p2"}

ConcInputs ==
    {[cpu |-> F(9, 10), gpu |-> F(9, 10), charging |-> FALSE, net |-> "lte", allowed |-> TRUE]}

InitConc == InitWith(ConcCallers, ShardMaps)

NextConc ==
    \/ \E p \in ConcCallers, id \in NodeIds : register_node_ctx(p, id, RankHw[id], CallerDirty)
    \/ \E p \in ConcCallers : register_node_ctx_return(p)
    \/ \E p \in ConcCallers, id \in NodeIds, in \in ConcInputs : update_node_status(p, id, in)
    \/ \E p \in ConcCallers, id \in NodeIds, in \in HealthInputs, rtt \in RttSamples :
            update_node_status_with_rtt(p, id, in, rtt)
    \/ \E p \in ConcCallers : update_node_status_finish(p)
    \/ \E p \in ConcCallers, in \in OverloadedInputs : update_master_status(p, in)
    \/ \E p \in ConcCallers : update_master_status_return(p)
    \/ \E p \in ConcCallers : check_server_overload_and_shard(p)
    \/ \E p \in ConcCallers : find_smart_candidates(p)
    \/ \E p \in ConcCallers : check_server_overload_and_shard_return(p)

SpecConc == InitConc /\ [][NextConc]_vars

-----------------------------------------------------------------------------
(* Claims on registration and health (specification Spec) *)

\* C1 (as claimed): a status update applied to a registered node last seen more
\* than 30 s before the update leaves it Quarantined with is_quarantined set.
C1_StaleUpdateQuarantines ==
    (ev.op = "update" /\ ev.pre_elapsed > 30)
        => (nodes[ev.id].health_state = "Quarantined" /\ nodes[ev.id].is_quarantined)

\* C2 (as claimed): a status update applied to a registered node last seen more
\* than 10 s and at most 30 s before the update leaves it Suspect, with
\* is_quarantined as it was before the update.
C2_LateUpdateSuspects ==
    (ev.op = "update" /\ ev.pre_elapsed > 10 /\ ev.pre_elapsed <= 30)
        => (nodes[ev.id].health_state = "Suspect"
            /\ nodes[ev.id].is_quarantined = ev.pre_quar)

C3_FlagInv ==
    \A id \in DOMAIN nodes :
        nodes[id].health_state # "Suspect"
            => nodes[id].is_quarantined = (nodes[id].health_state = "Quarantined")

\* is_quarantined of an entry changes only in the step that completes a
\* registration or a status update (its health recompute) of that entry
C3_FlagFrame ==
    \A id \in DOMAIN nodes :
        (id \in DOMAIN nodes' /\ nodes'[id].is_quarantined # nodes[id].is_quarantined)
            => (ev'.op \in {"register", "update"} /\ ev'.id = id)

C7_RegisterResets ==
    ev.op = "register" =>
        /\ ev.id \in DOMAIN nodes
        /\ Cardinality(DOMAIN nodes) = ev.pre_size + (IF ev.pre_has THEN 0 ELSE 1)
        /\ nodes[ev.id].node_id = ev.id
        /\ nodes[ev.id].net_rtt_ema_ms = FInt(0)
        /\ nodes[ev.id].health_state = "Healthy"
        /\ nodes[ev.id].failure_count = 0
        /\ nodes[ev.id].is_quarantined = FALSE
        /\ nodes[ev.id].current_tier =
              determine_tier(calculate_raw_opi(NodeCtx(ev.id, registered[ev.id][1], ev.given, now)))
        /\ nodes[ev.id].current_tier # "Offline"

\* C7 witness: a quarantined node has just been re-registered by a caller that
\* passed Quarantined, is_quarantined, a positive RTT estimate and tier Offline
C7_Witness ==
    /\ ev.op = "register"
    /\ ev.pre_has
    /\ ev.pre_quar
    /\ ev.given.is_quarantined
    /\ ev.given.current_tier = "Offline"
    /\ nodes[ev.id].current_tier = "Tier1HighPerformance"

\* C8: a status update for an identifier that is not registered creates no
\* entry, changes no entry and no server status, and returns.
C8_UnknownUpdateNoOp ==
    [][ev'.op = "update_unknown"
          => /\ ev'.id \notin DOMAIN nodes'
             /\ nodes' = nodes
             /\ server_status' = server_status
             /\ pc' = pc]_vars

\* C8 witness: a status update for an unregistered id has just returned while
\* another node is registered
C8_Witness ==
    /\ ev.op = "update_unknown"
    /\ ev.id \notin DOMAIN nodes
    /\ DOMAIN nodes # {}

-----------------------------------------------------------------------------
(* Claims on the overload check (specifications SpecRank and SpecScan) *)

\* the eligibility conditions, written out
Eligible(node) ==
    /\ node.user_allowed
    /\ node.current_tier # "Offline"
    /\ FLe(node.cpu_load, F(9, 10))
    /\ FLe(node.gpu_load, F(9, 10))
    /\ ~node.is_quarantined
    /\ FLt(FInt(0), calculate_effective_opi(node))

EligibleIds == {id \in DOMAIN nodes : Eligible(nodes[id])}

Score(id) == calculate_effective_opi(nodes[id])

Targets == {ev.commands[i].node_id : i \in 1..Len(ev.commands)}

\* C4: the check takes the overloaded branch iff cpu_load > cpu_max or
\* vram_usage_ratio > vram_pressure_max, whatever gpu_load is; it returns the
\* empty list when not overloaded or when no node is eligible.
C4_OverloadDecision ==
    ev.op = "check" =>
        /\ ev.overloaded <=> (\/ FLt(F(85, 100), server_status.cpu_load)
                              \/ FLt(F(90, 100), server_status.vram_usage_ratio))
        /\ ~ev.overloaded => ev.commands = <<>>
        /\ EligibleIds = {} => ev.commands = <<>>

\* C4 witness: a check has just returned the empty list, not overloaded, with
\* gpu_load above gpu_max and an eligible node registered
C4_Witness ==
    /\ ev.op = "check"
    /\ ~ev.overloaded
    /\ FLt(thresholds.gpu_max, server_status.gpu_load)
    /\ EligibleIds # {}
    /\ ev.commands = <<>>

\* C5: an overloaded check run alone returns min(3, E) commands for E eligible
\* nodes, to pairwise distinct eligible nodes, in descending order of effective
\* score, none of the nodes left out scoring higher than one taken, each
\* command with a shard identifier of its own.
C5_TopThree ==
    (ev.op = "check" /\ ev.overloaded) =>
        LET cmds == ev.commands
            n == Len(cmds)
        IN  /\ n = (IF Cardinality(EligibleIds) < 3 THEN Cardinality(EligibleIds) ELSE 3)
            /\ \A i \in 1..n : cmds[i].node_id \in EligibleIds
            /\ \A i, j \in 1..n :
                  i # j => /\ cmds[i].node_id # cmds[j].node_id
                           /\ cmds[i].cmd.shard_id # cmds[j].cmd.shard_id
            /\ \A i, j \in 1..n :
                  i < j => ~FLt(Score(cmds[i].node_id), Score(cmds[j].node_id))
            /\ \A id \in EligibleIds \ Targets :
                  \A i \in 1..n : ~FLt(Score(cmds[i].node_id), Score(id))
            /\ \A i \in 1..n :
                  cmds[i].cmd.type = "ShardTask" /\ cmds[i].cmd.task_id = cmds[i].cmd.shard_id

\* C5 witness: an overloaded check has just returned three commands with four
\* nodes eligible, of pairwise distinct effective scores
C5_Witness ==
    /\ ev.op = "check"
    /\ ev.overloaded
    /\ Cardinality(EligibleIds) = 4
    /\ Len(ev.commands) = 3
    /\ \A a, b \in EligibleIds : a # b => Score(a) # Score(b)

\* C6: find_smart_candidates returns a registered id iff the entry has
\* user_allowed, a tier other than Offline, cpu_load <= 0.9, gpu_load <= 0.9,
\* is_quarantined false and effective score > 0; every command goes to such a node.
C6_CandidatesAreEligible ==
    (ev.op = "check" /\ ev.overloaded) =>
        /\ {ev.cands[i][1] : i \in 1..Len(ev.cands)} = EligibleIds
        /\ Targets \subseteq EligibleIds

\* C6 witness: an overloaded check has just returned a command while another
\* node, consenting, lightly loaded and not quarantined, was left out for its
\* effective score of 0 (it is Suspect)
C6_Witness ==
    /\ ev.op = "check"
    /\ ev.overloaded
    /\ ev.commands # <<>>
    /\ \E id \in DOMAIN nodes :
          /\ id \notin Targets
          /\ nodes[id].user_allowed
          /\ FLe(nodes[id].cpu_load, F(9, 10))
          /\ FLe(nodes[id].gpu_load, F(9, 10))
          /\ ~nodes[id].is_quarantined
          /\ nodes[id].health_state = "Suspect"

-----------------------------------------------------------------------------
(* Claims on concurrent callers (specification SpecConc) *)

HardwareOf(node) ==
    [total_ram_mb |-> node.total_ram_mb,
     memory_bandwidth_gbps |-> node.memory_bandwidth_gbps,
     pcie_lanes |-> node.pcie_lanes,
     pcie_gen |-> node.pcie_gen,
     compute_units |-> node.compute_units,
     has_rocm |-> node.has_rocm]

\* C9: under any interleaving of concurrent registrations the registry holds
\* exactly the identifiers that were registered, each under its own key with the
\* hardware its caller registered, and right after an insert the whole entry is
\* the caller's: none lost, none duplicated.
C9_NoLostRegistration ==
    /\ DOMAIN nodes = DOMAIN registered
    /\ \A id \in DOMAIN nodes :
          /\ nodes[id].node_id = id
          /\ HardwareOf(nodes[id]) = registered[id][1]
    /\ ev.op = "register" =>
          nodes[ev.id] = register_ctx(NodeCtx(ev.id, registered[ev.id][1],
                                              registered[ev.id][2], now))

\* C9 witness: two callers are inside register_node_ctx at once, with distinct
\* identifiers, both inserts done, and the registry holds exactly the two
C9_Witness ==
    \E p, q \in DOMAIN pc :
        /\ p # q
        /\ pc[p] = "registered"
        /\ pc[q] = "registered"
        /\ frame[p].id # frame[q].id
        /\ DOMAIN nodes = {frame[p].id, frame[q].id}

\* while a caller is inside a status update of an entry, the entry is as that
\* caller's stores left it, no other caller is updating it, and no scan is on
\* the entry's shard
C10_Inv ==
    \A p \in DOMAIN pc :
        pc[p] = "updating" =>
            /\ nodes[frame[p].id] = write_status(frame[p].pre, frame[p].in, frame[p].t1)
            /\ \A q \in DOMAIN pc :
                  /\ ~(pc[q] = "scanning" /\ frame[q].cur = shard_of[frame[p].id])
                  /\ (q # p /\ pc[q] = "updating") => frame[q].id # frame[p].id

\* a status update leaves the entry it found with the whole update applied to it
C10_Step ==
    \A p \in DOMAIN pc :
        (pc[p] = "updating" /\ pc'[p] = "idle") =>
            nodes'[frame[p].id] =
                recompute_tier(update_health_state(
                    smooth_rtt(write_status(frame[p].pre, frame[p].in, frame[p].t1),
                               frame[p].rtt), now))

\* C10: a status update is atomic on its entry: no concurrent status update,
\* re-registration or candidate scan reads or writes the entry between the
\* update's stores and its recomputes, and the update's result is the whole
\* update applied to the entry as it found it (so two concurrent updates of one
\* node give the result of one of their serial orders).
C10_UpdateAtomic == [](C10_Inv) /\ [][C10_Step]_vars

\* C10 witness: one caller is between the stores and the recomputes of a status
\* update while another caller's scan is about to enter the entry's shard
C10_Witness ==
    \E p, q \in DOMAIN pc :
        /\ pc[p] = "updating"
        /\ pc[q] = "scanning"
        /\ frame[q].cur + 1 = shard_of[frame[p].id]

-----------------------------------------------------------------------------
(* Claims on the server status (specification SpecMaster) *)

\* Two callers running master status updates of three different triples and
\* overload checks concurrently, over two registered nodes.
InitMaster == InitWith(ConcCallers, ShardMaps)

NextMaster ==
    \/ \E p \in ConcCallers, id \in NodeIds : register_node_ctx(p, id, RankHw[id], CallerClean)
    \/ \E p \in ConcCallers : register_node_ctx_return(p)
    \/ \E p \in ConcCallers, in \in MasterInputs : update_master_status(p, in)
    \/ \E p \in ConcCallers : update_master_status_return(p)
    \/ \E p \in ConcCallers : check_server_overload_and_shard(p)
    \/ \E p \in ConcCallers : find_smart_candidates(p)
    \/ \E p \in ConcCallers : check_server_overload_and_shard_return(p)

SpecMaster == InitMaster /\ [][NextMaster]_vars

\* the statuses that one update_master_status call writes, and the initial one
SingleWrites ==
    {ServerStatusDefault} \cup
    {[cpu_load |-> m.cpu, gpu_load |-> m.gpu, vram_usage_ratio |-> m.vram] : m \in MasterInputs}

\* whenever the mutex is free or held by an overload check, the status is one
\* that a single update_master_status call wrote (or the initial one)
C11_Inv ==
    (status_lock = NoProc \/ pc[status_lock] = "scanning") => server_status \in SingleWrites

\* an overload decision is taken on a single call's triple, the status does not
\* change under a check, and a returning update leaves exactly its own triple
C11_Step ==
    /\ (\E p \in DOMAIN pc : pc[p] = "idle" /\ pc'[p] = "scanning")
          => (server_status \in SingleWrites /\ is_overloaded(server_status))
    /\ (ev'.op = "check" /\ ~ev'.overloaded)
          => (server_status \in SingleWrites /\ ~is_overloaded(server_status))
    /\ (\E p \in DOMAIN pc : pc[p] = "scanning") => server_status' = server_status
    /\ \A p \in DOMAIN pc :
          (pc[p] = "storing" /\ pc'[p] = "idle") => server_status' = frame[p].min

\* C11: update_master_status replaces the three fields atomically: every
\* overload decision is taken on a triple written by one update_master_status
\* call (or the initial all-zero status), never on a mix of two, and when an
\* update returns the status is the triple it wrote (the last writer's).
C11_MasterStatusAtomic == [](C11_Inv) /\ [][C11_Step]_vars

\* C11 witness: one caller is between its stores, the status in memory is a mix
\* of two updates, and the other caller is idle, kept out of the check
C11_Witness ==
    \E p, q \in DOMAIN pc :
        /\ p # q
        /\ pc[p] = "storing"
        /\ status_lock = p
        /\ server_status \notin SingleWrites
        /\ is_overloaded(server_status) # is_overloaded(frame[p].min)
        /\ pc[q] = "idle"

-----------------------------------------------------------------------------
(* Claims on RTT smoothing and the prompt health classification              *)
(* (specification SpecRtt)                                                   *)

\* One node registered and updated by one caller through both forms of the
\* status update, with RTT samples below, at and above zero, the clock advancing
\* by 10 s between any two steps.  The RTT-aware form is taken while the
\* estimate's denominator is at most MaxEmaDen, which keeps the estimates finite.
RttIds == {"n1"}

RttInput == [cpu |-> F(1, 2), gpu |-> F(1, 5), charging |-> TRUE, net |-> "wifi", allowed |-> TRUE]

SmoothSamples == {FInt(-5), FInt(0), FInt(50), FInt(100), FInt(150), FInt(200)}

RttTicks == {10, 31}

InitRtt == InitWith(Callers, {[i \in NodeIds |-> 1]})

NextRtt ==
    \/ \E p \in Callers, id \in RttIds : register_node_ctx(p, id, HwStandard, CallerDirty)
    \/ \E p \in Callers : register_node_ctx_return(p)
    \/ \E p \in Callers, id \in RttIds : update_node_status(p, id, RttInput)
    \/ \E p \in Callers, id \in RttIds, rtt \in SmoothSamples :
            /\ id \in DOMAIN nodes => nodes[id].net_rtt_ema_ms[2] <= MaxEmaDen
            /\ update_node_status_with_rtt(p, id, RttInput, rtt)
    \/ \E p \in Callers : update_node_status_finish(p)
    \/ \E d \in RttTicks : Tick(d)

SpecRtt == InitRtt /\ [][NextRtt]_vars

\* the step in which caller p completes a status update
UpdateCompletes(p) == pc[p] = "updating" /\ pc'[p] = "idle"

\* a status update whose health recompute sees at most 10 s since last_seen
\* leaves the entry Degraded if the smoothed estimate is above 150 ms and
\* Healthy otherwise, with is_quarantined false
C12_Step ==
    \A p \in DOMAIN pc :
        (UpdateCompletes(p) /\ now - frame[p].t1 <= 10) =>
            LET after == nodes'[frame[p].id]
            IN  /\ after.health_state =
                      (IF FLt(FInt(150), after.net_rtt_ema_ms) THEN "Degraded" ELSE "Healthy")
                /\ after.is_quarantined = FALSE

\* C12: when a status update is applied to a registered node and the elapsed
\* time used for classification is at most 10 s, the resulting health_state is
\* Degraded if the estimate after this update's smoothing is > 150 ms and
\* Healthy otherwise (exactly 150 is Healthy), and is_quarantined is false
\* afterwards, even if it was true before.
C12_PromptUpdateClassifies == [][C12_Step]_vars

\* C12 witness: a status update of a quarantined node has just been classified
\* on an elapsed time of exactly 10 s with an estimate of exactly 150 ms: the
\* node is Healthy and the flag is cleared
C12_Witness ==
    /\ ev.op = "update"
    /\ ev.pre_quar
    /\ now - nodes[ev.id].last_seen = 10
    /\ nodes[ev.id].net_rtt_ema_ms = FInt(150)
    /\ nodes[ev.id].health_state = "Healthy"
    /\ ~nodes[ev.id].is_quarantined

\* the estimate after a completed update, from the sample and the estimate the
\* update found; the estimate changes in no other step but a registration, and
\* only a registration takes it from positive to not positive
C13_Step ==
    /\ \A p \in DOMAIN pc :
          UpdateCompletes(p) =>
              LET sample == frame[p].rtt
                  before == frame[p].pre.net_rtt_ema_ms
                  after == nodes'[frame[p].id].net_rtt_ema_ms
              IN  /\ FLe(sample, FInt(0)) => after = before
                  /\ (FLt(FInt(0), sample) /\ FLe(before, FInt(0))) => after = sample
                  /\ (FLt(FInt(0), sample) /\ FLt(FInt(0), before))
                        => after = FAdd(FMul(F(1, 5), sample), FMul(F(4, 5), before))
    /\ \A id \in DOMAIN nodes :
          /\ nodes'[id].net_rtt_ema_ms # nodes[id].net_rtt_ema_ms
                => (ev'.op \in {"register", "update"} /\ ev'.id = id)
          /\ (FLt(FInt(0), nodes[id].net_rtt_ema_ms) /\ FLe(nodes'[id].net_rtt_ema_ms, FInt(0)))
                => (ev'.op = "register" /\ ev'.id = id)

\* C13: over any sequence of status updates on a registered node, a sample
\* <= 0 leaves net_rtt_ema_ms unchanged, a sample > 0 on an estimate <= 0 sets
\* the estimate to the sample, a sample > 0 on an estimate > 0 sets it to
\* 0.2*sample + 0.8*estimate; once positive the estimate returns to <= 0 only
\* through re-registration.
C13_RttSmoothing == [][C13_Step]_vars

\* C13 witness: an update with sample 50 has just completed on an estimate of
\* 100 and left 90
C13_Witness ==
    /\ ev.op = "update"
    /\ ev.api = "update_node_status_with_rtt"
    /\ nodes[ev.id].net_rtt_ema_ms = FInt(90)

\* the result of update_node_status_with_rtt with sample rtt_ms on the entry
\* found, t1 and t2 being its two readings of the clock
with_rtt_result(found, in, rtt_ms, t1, t2) ==
    recompute_tier(update_health_state(smooth_rtt(write_status(found, in, t1), rtt_ms), t2))

\* a completing update_node_status leaves what update_node_status_with_rtt with
\* sample 0 leaves, with the estimate as found; a call of either form on an
\* unknown id leaves the registry as it was
C14_Step ==
    /\ \A p \in DOMAIN pc :
          (UpdateCompletes(p) /\ frame[p].api = "update_node_status") =>
              /\ nodes' = [nodes EXCEPT ![frame[p].id] =
                             with_rtt_result(frame[p].pre, frame[p].in, FInt(0), frame[p].t1, now)]
              /\ nodes'[frame[p].id].net_rtt_ema_ms = frame[p].pre.net_rtt_ema_ms
              /\ server_status' = server_status
    /\ \A p \in DOMAIN pc :
          (pc[p] = "idle" /\ pc'[p] = "updating" /\ frame'[p].api = "update_node_status") =>
              nodes' = [nodes EXCEPT ![frame'[p].id] = write_status(@, frame'[p].in, now)]
    /\ ev'.op = "update_unknown" => nodes' = nodes

\* C14: update_node_status(id, cpu, gpu, charging, net, allowed) produces the
\* state that update_node_status_with_rtt(id, cpu, gpu, charging, net, allowed, 0)
\* produces: the RTT estimate is not changed, while loads, consent, last_seen,
\* health state and tier are updated as in the RTT-aware form.
C14_LegacyIsRttZero == [][C14_Step]_vars

\* C14 witness: an update_node_status has just completed on a node whose
\* estimate was 200 ms: the estimate is kept and the health re-evaluated on it
C14_Witness ==
    /\ ev.op = "update"
    /\ ev.api = "update_node_status"
    /\ nodes[ev.id].net_rtt_ema_ms = FInt(200)
    /\ nodes[ev.id].health_state = "Degraded"
    /\ nodes[ev.id].last_seen = now

-----------------------------------------------------------------------------
(* Claims on the effective score, the life of an entry and the operations    *)
(* that only read (specification SpecEff)                                    *)

\* Two nodes registered and updated through both forms (sample 200 ms), the
\* clock advancing by 20 s between any two steps, the server overloaded, the
\* overload check with its scan, and the four request handlers, by one caller.
EffInputs ==
    {[cpu |-> F(1, 2), gpu |-> F(1, 5), charging |-> TRUE, net |-> "wifi", allowed |-> TRUE]}

InitEff == InitWith(Callers, {[i \in NodeIds |-> IF i = "n1" THEN 1 ELSE 2]})

NextEff ==
    \/ \E p \in Callers, id \in NodeIds : register_node_ctx(p, id, RankHw[id], CallerClean)
    \/ \E p \in Callers : register_node_ctx_return(p)
    \/ \E p \in Callers, id \in NodeIds, in \in EffInputs : update_node_status(p, id, in)
    \/ \E p \in Callers, id \in NodeIds, in \in EffInputs, rtt \in RttSamples :
            update_node_status_with_rtt(p, id, in, rtt)
    \/ \E p \in Callers : update_node_status_finish(p)
    \/ \E p \in Callers, in \in OverloadedInputs : update_master_status(p, in)
    \/ \E p \in Callers : update_master_status_return(p)
    \/ \E p \in Callers : check_server_overload_and_shard(p)
    \/ \E p \in Callers : find_smart_candidates(p)
    \/ \E p \in Callers : check_server_overload_and_shard_return(p)
    \/ \E p \in Callers, c \in ClientIds, r \in OffloadRequests : handle_offload_request(p, c, r)
    \/ \E p \in Callers, c \in ClientIds, r \in BabelRequests : handle_babel_request(p, c, r)
    \/ \E p \in Callers, c \in ClientIds, r \in AssistRequests : handle_assist_request(p, c, r)
    \/ \E p \in Callers, r \in AdminRequests : handle_admin_action(p, r)
    \/ \E d \in ScanTicks : Tick(d)

SpecEff == InitEff /\ [][NextEff]_vars

\* raw_score / net_factor * load_factor of an entry whose estimate is positive,
\* written out
PenalisedScore(node) ==
    LET ratio == FDiv(node.net_rtt_ema_ms, FInt(10))
        net == IF FLt(ratio, FInt(1)) THEN FInt(1)
               ELSE IF FLt(FInt(10), ratio) THEN FInt(10) ELSE ratio
        busiest == IF FLt(node.cpu_load, node.gpu_load) THEN node.gpu_load ELSE node.cpu_load
        load == IF FLt(busiest, FInt(0)) THEN FInt(0)
                ELSE IF FLt(FInt(1), busiest) THEN FInt(1) ELSE busiest
    IN  FMul(FDiv(calculate_raw_opi(node), net), FAdd(FInt(1), FMul(FInt(-1), load)))

\* C15: the effective score of an entry is exactly 0 whenever is_quarantined is
\* true or health_state is Suspect or Quarantined, and such a node is in no
\* command list; a Degraded entry (not quarantined) is not zeroed and scores
\* raw_score / net_factor * load_factor.
C15_ScoreZeroing ==
    \A id \in DOMAIN nodes :
        /\ (nodes[id].is_quarantined \/ nodes[id].health_state \in {"Suspect", "Quarantined"})
              => /\ calculate_effective_opi(nodes[id]) = FInt(0)
                 /\ ev.op = "check" => id \notin Targets
        /\ (nodes[id].health_state = "Degraded" /\ ~nodes[id].is_quarantined)
              => /\ calculate_effective_opi(nodes[id]) = PenalisedScore(nodes[id])
                 /\ FLt(FInt(0), calculate_effective_opi(nodes[id]))

\* C15 witness: an overloaded check has just sent its only command to a Degraded
\* node while the other node, of higher hardware score, not quarantined but
\* Suspect, got none
C15_Witness ==
    /\ ev.op = "check"
    /\ ev.overloaded
    /\ \E a, b \in DOMAIN nodes :
          /\ Targets = {a}
          /\ nodes[a].health_state = "Degraded"
          /\ nodes[b].health_state = "Suspect"
          /\ ~nodes[b].is_quarantined
          /\ FLt(calculate_raw_opi(nodes[a]), calculate_raw_opi(nodes[b]))

Handlers == {"handle_offload_request", "handle_babel_request", "handle_assist_request",
             "handle_admin_action"}

\* a step of the overload check (its test, its scan, its return) or of a
\* request handler
ReadOnlyStep ==
    \/ ev'.op = "check"
    \/ ev'.op \in Handlers
    \/ \E p \in DOMAIN pc : pc[p] = "scanning" \/ pc'[p] = "scanning"

\* the overload check and the handlers leave the registry and the server status
\* as they were; handle_admin_action returns success
C20_Step ==
    /\ ReadOnlyStep => (nodes' = nodes /\ server_status' = server_status)
    /\ ev'.op = "handle_admin_action" => ev'.result = <<"Ok", "Processed">>

\* the targets of an overloaded check are the eligible nodes of the registry it
\* leaves (up to three), so that a check repeated on it has the same targets
C20_Inv ==
    (ev.op = "check" /\ ev.overloaded) =>
        /\ Targets \subseteq EligibleIds
        /\ Cardinality(Targets) = (IF Cardinality(EligibleIds) < 3
                                   THEN Cardinality(EligibleIds) ELSE 3)

\* C20: check_server_overload_and_shard and the four request handlers leave the
\* node registry and the server status unchanged, overloaded or not; a targeted
\* node keeps its load, health and eligibility, so two consecutive checks with
\* no update in between target the same nodes; handle_admin_action returns
\* success for every request.
C20_ReadOnlyOperations == [](C20_Inv) /\ [][C20_Step]_vars

\* C20 witness: an overloaded check has just returned a command to a node that
\* is still eligible, after an earlier check had already issued one
C20_Witness ==
    /\ ev.op = "check"
    /\ ev.overloaded
    /\ Len(ev.commands) = 1
    /\ ev.commands[1].cmd.shard_id > 1
    /\ Targets = EligibleIds

-----------------------------------------------------------------------------
(* Claim on the life of an entry (specification SpecLife) *)

\* Two callers running every operation concurrently on two nodes: registration,
\* status updates, master status updates, the overload check, the four request
\* handlers, with the clock advancing by 20 s between any two steps.
InitLife == InitWith(ConcCallers, ShardMaps)

NextLife ==
    \/ \E p \in ConcCallers, id \in NodeIds : register_node_ctx(p, id, RankHw[id], CallerClean)
    \/ \E p \in ConcCallers : register_node_ctx_return(p)
    \/ \E p \in ConcCallers, id \in NodeIds, in \in EffInputs : update_node_status(p, id, in)
    \/ \E p \in ConcCallers : update_node_status_finish(p)
    \/ \E p \in ConcCallers, in \in OverloadedInputs : update_master_status(p, in)
    \/ \E p \in ConcCallers : update_master_status_return(p)
    \/ \E p \in ConcCallers : check_server_overload_and_shard(p)
    \/ \E p \in ConcCallers : find_smart_candidates(p)
    \/ \E p \in ConcCallers : check_server_overload_and_shard_return(p)
    \/ \E p \in ConcCallers, r \in OffloadRequests : handle_offload_request(p, "n1", r)
    \/ \E p \in ConcCallers, r \in BabelRequests : handle_babel_request(p, "n1", r)
    \/ \E p \in ConcCallers, r \in AssistRequests : handle_assist_request(p, "n1", r)
    \/ \E p \in ConcCallers, r \in AdminRequests : handle_admin_action(p, r)
    \/ \E d \in ScanTicks : Tick(d)

SpecLife == InitLife /\ [][NextLife]_vars

\* every identifier ever registered has an entry
C16_Inv == DOMAIN registered \subseteq DOMAIN nodes

\* no step takes an entry out of the registry
C16_Step == DOMAIN nodes \subseteq DOMAIN nodes'

\* C16: no operation removes a node: once an identifier has been registered it
\* has an entry in every later state, under any interleaving of register,
\* status-update, master-status-update, overload-check and handler calls, also
\* after the node has been classified Quarantined.
C16_NeverRemoved == [](C16_Inv) /\ [][C16_Step]_vars

\* C16 witness: a status update has just classified a node Quarantined, and a
\* later overload check finds both registered nodes still in the registry
C16_Witness ==
    /\ ev.op = "check"
    /\ ev.overloaded
    /\ DOMAIN nodes = NodeIds
    /\ \E id \in DOMAIN nodes :
          nodes[id].health_state = "Quarantined" /\ now - nodes[id].last_seen > 30

-----------------------------------------------------------------------------
(* Claim on status updates that are not stalled (specification SpecPrompt) *)

\* the clock advances, by less than 10 s in all between the two clock readings
\* of a status update in progress
PromptTick(d) ==
    /\ \A p \in DOMAIN pc : pc[p] = "updating" => (now + d) - frame[p].t1 < 10
    /\ Tick(d)

PromptTicks == {9, 31}

\* Registration and status updates of two nodes by one caller; a node may stay
\* silent for any time between two calls, but no status update is stalled for
\* 10 s or more between its two clock readings.
InitPrompt == InitWith(Callers, {[i \in NodeIds |-> 1]})

NextPrompt ==
    \/ \E p \in Callers, id \in NodeIds, r \in RegInputs : register_node_ctx(p, id, r[1], r[2])
    \/ \E p \in Callers : register_node_ctx_return(p)
    \/ \E p \in Callers, id \in NodeIds, in \in HealthInputs : update_node_status(p, id, in)
    \/ \E p \in Callers, id \in NodeIds, in \in HealthInputs, rtt \in RttSamples :
            update_node_status_with_rtt(p, id, in, rtt)
    \/ \E p \in Callers : update_node_status_finish(p)
    \/ \E d \in PromptTicks : PromptTick(d)

SpecPrompt == InitPrompt /\ [][NextPrompt]_vars

\* C17: because a status update stores the current time in last_seen before the
\* health recompute reads the clock, in every state reached through register
\* and status updates (with less than 10 s between the two clock readings of
\* an update) every node is Healthy or Degraded with is_quarantined false,
\* however long it was silent before the update or stays silent after it.
C17_StaleStatesUnreachable ==
    \A id \in DOMAIN nodes :
        /\ nodes[id].health_state \in {"Healthy", "Degraded"}
        /\ nodes[id].is_quarantined = FALSE

\* C17 witness: a status update has just completed on a node that had been
\* silent for more than 30 s, after a stall of 9 s between its clock readings,
\* and the node is Healthy; the other node, silent for more than 30 s, is
\* still Degraded
C17_Witness ==
    /\ ev.op = "update"
    /\ ev.pre_elapsed > 30
    /\ now - nodes[ev.id].last_seen = 9
    /\ nodes[ev.id].health_state = "Healthy"
    /\ \E id \in DOMAIN nodes :
          /\ now - nodes[id].last_seen > 30
          /\ nodes[id].health_state = "Degraded"

-----------------------------------------------------------------------------
(* Claims on the tier and on termination (specifications SpecConc, SpecLive) *)

\* every entry's tier is the tier of its raw hardware score, and is not Offline
C18_Inv ==
    \A id \in DOMAIN nodes :
        /\ nodes[id].current_tier = determine_tier(calculate_raw_opi(nodes[id]))
        /\ nodes[id].current_tier # "Offline"

\* a status update changes neither the hardware fields nor the tier of its entry
C18_Step ==
    \A p \in DOMAIN pc :
        /\ (pc[p] = "idle" /\ pc'[p] = "updating") =>
              /\ nodes'[frame'[p].id].current_tier = nodes[frame'[p].id].current_tier
              /\ HardwareOf(nodes'[frame'[p].id]) = HardwareOf(nodes[frame'[p].id])
        /\ UpdateCompletes(p) =>
              /\ nodes'[frame[p].id].current_tier = frame[p].pre.current_tier
              /\ HardwareOf(nodes'[frame[p].id]) = HardwareOf(frame[p].pre)

\* C18: in every reachable state each entry's current_tier equals
\* determine_tier(raw hardware score of the entry) and is never Offline; a
\* status update never changes a node's tier (its tier-change branch is never
\* taken), and the Offline exclusion of the candidate scan rejects no node.
C18_TierFollowsHardware == [](C18_Inv) /\ [][C18_Step]_vars

\* C18 witness: a status update has just completed on a node that its caller
\* registered with tier Offline; the node has the tier of its hardware score
C18_Witness ==
    /\ ev.op = "update"
    /\ registered[ev.id][2].current_tier = "Offline"
    /\ nodes[ev.id].current_tier = "Tier1HighPerformance"
    /\ FLe(FInt(200), calculate_raw_opi(nodes[ev.id]))

\* Two callers running registrations, status updates, master status updates and
\* overload checks concurrently, scheduled fairly: a caller inside a call that
\* needs no lock takes its next step (weak fairness), and a caller waiting for a
\* shard's lock gets it if the lock is free again and again (strong fairness).
InitLive == InitWith(ConcCallers, ShardMaps)

NextLive ==
    \/ \E p \in ConcCallers, id \in NodeIds : register_node_ctx(p, id, RankHw[id], CallerClean)
    \/ \E p \in ConcCallers : register_node_ctx_return(p)
    \/ \E p \in ConcCallers, id \in NodeIds, in \in ConcInputs : update_node_status(p, id, in)
    \/ \E p \in ConcCallers : update_node_status_finish(p)
    \/ \E p \in ConcCallers, in \in OverloadedInputs : update_master_status(p, in)
    \/ \E p \in ConcCallers : update_master_status_return(p)
    \/ \E p \in ConcCallers : check_server_overload_and_shard(p)
    \/ \E p \in ConcCallers : find_smart_candidates(p)
    \/ \E p \in ConcCallers : check_server_overload_and_shard_return(p)

\* the steps that continue a call, each given by its guard and by what it does
\* to the caller's position or to the shard locks (which no other step does)
update_returns(p) ==
    pc[p] = "updating" /\ pc' = [pc EXCEPT ![p] = "idle"]

master_returns(p) ==
    pc[p] = "storing" /\ pc' = [pc EXCEPT ![p] = "idle"]

register_returns(p) ==
    /\ pc[p] = "registered"
    /\ ShardReadable(shard_of[frame[p].id])
    /\ pc' = [pc EXCEPT ![p] = "idle"]

check_returns(p) ==
    /\ pc[p] = "scanning"
    /\ frame[p].cur = NumShards
    /\ pc' = [pc EXCEPT ![p] = "idle"]

scan_enters(p) ==
    /\ pc[p] = "scanning"
    /\ frame[p].cur < NumShards
    /\ ShardReadable(frame[p].cur + 1)
    /\ shard_lock' = [x \in Shards |->
            IF x = frame[p].cur + 1 THEN [shard_lock[x] EXCEPT !.r = @ \cup {p}]
            ELSE IF x = frame[p].cur THEN [shard_lock[x] EXCEPT !.r = @ \ {p}]
            ELSE shard_lock[x]]

FairLive ==
    \A p \in ConcCallers :
        /\ WF_pc(update_returns(p))
        /\ WF_pc(master_returns(p))
        /\ WF_pc(check_returns(p))
        /\ SF_pc(register_returns(p))
        /\ SF_shard_lock(scan_enters(p))

SpecLive == InitLive /\ [][NextLive]_vars /\ FairLive

\* caller p, inside a call, is not waiting for a lock that is held
CanStep(p) ==
    /\ pc[p] = "registered" => ShardReadable(shard_of[frame[p].id])
    /\ (pc[p] = "scanning" /\ frame[p].cur < NumShards) => ShardReadable(frame[p].cur + 1)

\* the holder of an entry guard does not hold, and is not waiting for, the
\* server-status mutex; if callers are inside calls, one of them can step
C19_NoDeadlock ==
    /\ \A s \in Shards : shard_lock[s].w # NoProc =>
          (status_lock # shard_lock[s].w /\ pc[shard_lock[s].w] = "updating")
    /\ (\E p \in DOMAIN pc : pc[p] # "idle") => (\E p \in DOMAIN pc : pc[p] # "idle" /\ CanStep(p))

\* C19: under any interleaving of concurrent register, status-update,
\* master-status-update and overload-check calls, with fair scheduling, every
\* call eventually returns, and no deadlock state is reachable.
C19_EveryCallReturns ==
    /\ [](C19_NoDeadlock)
    /\ \A p \in ConcCallers : (pc[p] # "idle") ~> (pc[p] = "idle")

\* C19 witness: one caller holds the server-status mutex in its scan and waits
\* for the shard that the other caller holds with an entry guard, while that
\* caller is inside its status update
C19_Witness ==
    \E p, q \in DOMAIN pc :
        /\ pc[p] = "scanning"
        /\ status_lock = p
        /\ frame[p].cur < NumShards
        /\ shard_lock[frame[p].cur + 1].w = q
        /\ pc[q] = "updating"
        /\ ~CanStep(p)

====
